---- MODULE Spec2Model ----
(***************************************************************************)
(* A model of pyvidplayer2.Webcam (src/pyvidplayer2/webcam.py).            *)
(*                                                                         *)
(* The state is the fields of one Webcam object, the capture device behind *)
(* self._vid and the wall clock read by time.time().  Every public method  *)
(* is one action.  The history variables op, arg, ret, poll, blit,         *)
(* read_at, stopped and fresh record what the last call was, what it       *)
(* returned, what its poll did, whether it composited, when the device was *)
(* last read, whether stop() was called since the last play() and whether  *)
(* a frame was captured since the last stop(); the program does not have   *)
(* them and no action reads them.                                          *)
(*                                                                         *)
(* Time is counted in ticks, TicksPerSecond ticks to the second, so that   *)
(* time.time() - self._last_tick > 1 / self.fps  is                        *)
(* (now - _last_tick) * fps > TicksPerSecond.  The two time.time() calls   *)
(* of _update are taken at the same tick.                                  *)
(*                                                                         *)
(* cv2 and pygame are modelled by their interfaces: cv2.resize returns the *)
(* frame at the requested size, the device delivers frames at the mode it  *)
(* reports, and pygame.image.frombuffer builds a surface of the size it is *)
(* given.  A frame is a record of its size, the algorithm of the last      *)
(* resize applied to it, the post-processing function applied to it, how   *)
(* many times one was applied and the kind of the last transform applied   *)
(* to it.                                                                  *)
(*                                                                         *)
(* pc is "idle" between two calls on a constructed object.  SpecInit       *)
(* starts before the construction ("new") and SpecPreview follows the loop *)
(* of preview() ("loop", then "done").                                     *)
(***************************************************************************)
EXTENDS Integers, Sequences, FiniteSets, TLC

VARIABLES
    original_size,  \* self.original_size: <<w, h>> negotiated with the device
    current_size,   \* self.current_size: <<w, h>> of the output
    aspect_ratio,   \* self.aspect_ratio, the fraction <<numerator, denominator>>
    frame_data,     \* self.frame_data: None or a frame
    frame_surf,     \* self.frame_surf: None or a surface
    active,         \* self.active
    closed,         \* self.closed
    post_func,      \* self.post_func
    interp,         \* self.interp: a cv2.INTER_* constant
    fps,            \* self.fps
    _frames,        \* self._frames
    _last_tick,     \* self._last_tick
    _vid,           \* self._vid: [opened, size] of the capture device
    now,            \* time.time(), in ticks
    op,             \* history: name of the last call
    arg,            \* history: its argument
    ret,            \* history: its return value, as a string
    poll,           \* history: what its _update did
    blit,           \* history: whether it composited frame_surf
    read_at,        \* history: <<time of the latest device read>>, or <<>>
    stopped,        \* history: stop() or close() was called since the last play()
    fresh,          \* history: a frame was captured since the last stop()/close()
    pc              \* where the caller is: "new", "failed", "idle", "loop", "done"

vars == <<original_size, current_size, aspect_ratio, frame_data, frame_surf,
          active, closed, post_func, interp, fps, _frames, _last_tick, _vid,
          now, op, arg, ret, poll, blit, read_at, stopped, fresh, pc>>

(***************************************************************************)
(* Bounds                                                                  *)
(***************************************************************************)
MaxFrames == 2          \* captures explored
MaxTime == 3            \* ticks the clock advances
TicksPerSecond == 2     \* resolution of the clock

MaxHeight == 6          \* heights the width arithmetic is checked for
FpsValues == {1, 2}
DeviceModes == {<<4, 3>>, <<3, 2>>}
CaptureRequests == DeviceModes \cup {<<5, 5>>}
OutputSizes == {<<2, 2>>}
Heights == {2, 3}
PostFuncs == {"none", "blur"}

(***************************************************************************)
(* Values                                                                  *)
(***************************************************************************)
None == [none |-> TRUE]
NoArg == <<>>
NoRead == <<>>                \* read_at before the first device read
Epoch == TicksPerSecond + 1   \* time.time() at construction, far from 0

INTER_NEAREST == 0
INTER_LINEAR == 1
INTER_CUBIC == 2
INTER_AREA == 3
INTER_LANCZOS4 == 4
NoInterp == INTER_NEAREST - 1   \* no cv2 constant

\* Union[str, int] tokens
StrTok(s) == [isStr |-> TRUE, s |-> s, n |-> 0]
IntTok(n) == [isStr |-> FALSE, s |-> "", n |-> n]
ValidTokens ==
    {StrTok(s) : s \in {"nearest", "linear", "cubic", "area", "lanczos4"}}
        \cup {IntTok(n) : n \in 0..4}
InvalidTokens == {StrTok("LINEAR"), StrTok("bilinear"), IntTok(5), IntTok(-1)}
Tokens == ValidTokens \cup InvalidTokens
\* the tokens the calls of Spec pass; SpecInterp passes all of Tokens
FewTokens == {IntTok(2), StrTok("bilinear")}
DefaultToken == StrTok("linear")

\* interp in (name, num)
TokIn(tok, name, num) ==
    \/ tok.isStr /\ tok.s = name
    \/ ~tok.isStr /\ tok.n = num

(***************************************************************************)
(* Helpers of the class                                                    *)
(***************************************************************************)
\* cv2.resize(data, dsize=size, interpolation=interp)
_resize_frame(data, size, alg) ==
    [data EXCEPT !.size = size, !.interp = alg, !.last = "resize"]

\* pygame.image.frombuffer(data.tobytes(), self.current_size, "BGR")
_create_frame(data, cur) == [size |-> cur, data |-> data]

\* data = self.post_func(data)
ApplyPost(f, data) ==
    [data EXCEPT !.post = f, !.posts = @ + 1, !.last = "post"]

\* has_frame, data = self._vid.read(): the raw frame, at the device's mode
RawFrame(dev) ==
    [size |-> dev.size, interp |-> NoInterp, post |-> "raw", posts |-> 0,
     last |-> "raw"]

\* mutant of Due: a poll exactly 1/fps after the last one reads too
DueAtInterval(t, last, f) == (t - last) * f >= TicksPerSecond

\* mutant of Due: the interval is left out of the comparison
DueNoInterval(t, last, f) == t - last > 0

\* time.time() - self._last_tick > 1 / self.fps
Due(t, last, f) == (t - last) * f > TicksPerSecond

\* mutant of Captured: post_func is applied before the resize
CapturedPostFirst(raw, orig, cur, alg, f) ==
    IF orig # cur THEN _resize_frame(ApplyPost(f, raw), cur, alg)
    ELSE ApplyPost(f, raw)

\* mutant of Captured: the frame is never resized to current_size
CapturedNoResize(raw, orig, cur, alg, f) == ApplyPost(f, raw)

\* the frame _update stores on a successful read
Captured(raw, orig, cur, alg, f) ==
    ApplyPost(f, IF orig # cur THEN _resize_frame(raw, cur, alg) ELSE raw)

\* mutant of SetInterpChoice: the aliases of area and cubic are exchanged
SetInterpChoiceSwapped(tok) ==
    IF TokIn(tok, "nearest", 0) THEN INTER_NEAREST
    ELSE IF TokIn(tok, "linear", 1) THEN INTER_LINEAR
    ELSE IF TokIn(tok, "area", 2) THEN INTER_AREA
    ELSE IF TokIn(tok, "cubic", 3) THEN INTER_CUBIC
    ELSE IF TokIn(tok, "lanczos4", 4) THEN INTER_LANCZOS4
    ELSE NoInterp

\* the if/elif chain of set_interp: the constant selected, or None
SetInterpChoice(tok) ==
    IF TokIn(tok, "nearest", 0) THEN INTER_NEAREST
    ELSE IF TokIn(tok, "linear", 1) THEN INTER_LINEAR
    ELSE IF TokIn(tok, "area", 3) THEN INTER_AREA
    ELSE IF TokIn(tok, "cubic", 2) THEN INTER_CUBIC
    ELSE IF TokIn(tok, "lanczos4", 4) THEN INTER_LANCZOS4
    ELSE NoInterp

\* the mode the device reports after set(WIDTH), set(HEIGHT): the requested
\* one when it supports it, else one of its modes
Negotiate(size) == IF size \in DeviceModes THEN {size} ELSE DeviceModes

\* mutant of ScaledWidth: an odd width is kept
ScaledWidthNoEven(height, ar) == (height * ar[1]) \div ar[2]

\* mutant of ScaledWidth: an odd width is lowered by one
ScaledWidthOddDown(height, ar) ==
    LET w == (height * ar[1]) \div ar[2]
    IN  IF w % 2 = 1 THEN w - 1 ELSE w

\* w = int(height * self.aspect_ratio); if w % 2 == 1: w += 1
ScaledWidth(height, ar) ==
    LET w == (height * ar[1]) \div ar[2]
    IN  IF w % 2 = 1 THEN w + 1 ELSE w

\* mutant of DrawCond: only a new frame is drawn, force_draw is ignored
DrawCondNewOnly(updated, force_draw, surf) == updated /\ surf # None

\* mutant of DrawCond: "and" in the place of "or"
DrawCondAnd(updated, force_draw, surf) ==
    (updated /\ force_draw) /\ surf # None

\* (self._update() or force_draw) and self.frame_surf is not None
DrawCond(updated, force_draw, surf) == (updated \/ force_draw) /\ surf # None

\* self._frames / self.fps, as the fraction <<numerator, denominator>>
get_pos == <<_frames, fps>>

(***************************************************************************)
(* Construction: __init__ with a device that opens and a valid token       *)
(***************************************************************************)
Init ==
    /\ \E m \in DeviceModes :
        /\ _vid = [opened |-> TRUE, size |-> m]
        /\ original_size = m
        /\ current_size = m
        /\ aspect_ratio = m
    /\ frame_data = None
    /\ frame_surf = None
    /\ active = TRUE
    /\ closed = FALSE
    /\ post_func \in PostFuncs
    /\ interp = SetInterpChoice(DefaultToken)
    /\ fps \in FpsValues
    /\ _frames = 0
    /\ _last_tick = 0
    /\ now = Epoch
    /\ op = "__init__"
    /\ arg = NoArg
    /\ ret = "None"
    /\ poll = "none"
    /\ blit = FALSE
    /\ read_at = NoRead
    /\ stopped = FALSE
    /\ fresh = FALSE
    /\ pc = "idle"

(***************************************************************************)
(* _update                                                                 *)
(***************************************************************************)
\* mutant of StoreFrame: the frame is stored and not counted
StoreFrameNoCount ==
    /\ frame_data' = Captured(RawFrame(_vid), original_size, current_size,
                              interp, post_func)
    /\ frame_surf' = _create_frame(frame_data', current_size)
    /\ _frames' = _frames

\* the branch of a successful read: store the frame, count it
StoreFrame ==
    /\ frame_data' = Captured(RawFrame(_vid), original_size, current_size,
                              interp, post_func)
    /\ frame_surf' = _create_frame(frame_data', current_size)
    /\ _frames' = _frames + 1

\* mutant of ReadFailed: the empty data of the failed read is stored
ReadFailedStoresNone ==
    /\ frame_data' = None
    /\ frame_surf' = None
    /\ _frames' = _frames

\* the branch of a failed read: fall through to return False
ReadFailed == UNCHANGED <<frame_data, frame_surf, _frames>>

\* has_frame is what self._vid.read() answers if it is called
_update(has_frame) ==
    IF active /\ Due(now, _last_tick, fps)
    THEN /\ _last_tick' = now
         /\ IF has_frame
            THEN StoreFrame /\ poll' = "captured"
            ELSE ReadFailed /\ poll' = "failed"
    ELSE /\ UNCHANGED <<_last_tick, frame_data, frame_surf, _frames>>
         /\ poll' = IF active THEN "throttled" ELSE "inactive"

\* the answers of the device read explored: no capture past MaxFrames.  A
\* released device answers like an open one: reading it is left undefined.
ReadOutcomes == IF _frames < MaxFrames THEN BOOLEAN ELSE {FALSE}

\* read_at for the next call: the time of this call if its poll read the device
ReadAtAfter == IF poll' \in {"failed", "captured"} THEN <<now>> ELSE read_at

\* fresh for the next call
FreshAfter == (poll' = "captured") \/ fresh

BoolStr(b) == IF b THEN "True" ELSE "False"

(***************************************************************************)
(* The methods                                                             *)
(***************************************************************************)
update ==
    /\ \E has_frame \in ReadOutcomes : _update(has_frame)
    /\ op' = "update"
    /\ arg' = NoArg
    /\ ret' = BoolStr(poll' = "captured")
    /\ blit' = FALSE
    /\ read_at' = ReadAtAfter
    /\ fresh' = FreshAfter
    /\ UNCHANGED <<pc, original_size, current_size, aspect_ratio, active, closed,
                   post_func, interp, fps, _vid, now, stopped>>

\* draw(surf, pos, force_draw)
DrawCall(force_draw) ==
    /\ \E has_frame \in ReadOutcomes : _update(has_frame)
    /\ op' = "draw"
    /\ arg' = force_draw
    /\ blit' = DrawCond(poll' = "captured", force_draw, frame_surf')
    /\ ret' = BoolStr(blit')
    /\ read_at' = ReadAtAfter
    /\ fresh' = FreshAfter
    /\ UNCHANGED <<original_size, current_size, aspect_ratio, active, closed,
                   post_func, interp, fps, _vid, now, stopped>>

draw ==
    \E force_draw \in BOOLEAN :
        /\ DrawCall(force_draw)
        /\ UNCHANGED pc

\* history of a call that does not poll
Call(name, a, r) ==
    /\ op' = name
    /\ arg' = a
    /\ ret' = r
    /\ poll' = "none"
    /\ blit' = FALSE

set_post_func ==
    \E func \in PostFuncs :
        /\ post_func' = func
        /\ Call("set_post_func", func, "None")
        /\ UNCHANGED <<pc, original_size, current_size, aspect_ratio, frame_data,
                       frame_surf, active, closed, interp, fps, _frames,
                       _last_tick, _vid, now, read_at, stopped, fresh>>

\* set_interp(tok) for a token among toks
SetInterp(toks) ==
    \E tok \in toks :
        /\ IF SetInterpChoice(tok) # NoInterp
           THEN interp' = SetInterpChoice(tok) /\ Call("set_interp", tok, "None")
           ELSE interp' = interp /\ Call("set_interp", tok, "ValueError")
        /\ UNCHANGED <<pc, original_size, current_size, aspect_ratio, frame_data,
                       frame_surf, active, closed, post_func, fps, _frames,
                       _last_tick, _vid, now, read_at, stopped, fresh>>

set_interp == SetInterp(FewTokens)

play ==
    /\ active' = TRUE
    /\ Call("play", NoArg, "None")
    /\ stopped' = FALSE
    /\ UNCHANGED <<pc, original_size, current_size, aspect_ratio, frame_data,
                   frame_surf, closed, post_func, interp, fps, _frames,
                   _last_tick, _vid, now, read_at, fresh>>

\* mutant of StopBody: the frame is kept
StopBodyKeepsFrame ==
    /\ active' = FALSE
    /\ UNCHANGED <<frame_data, frame_surf>>

\* mutant of StopBody: the surface is kept
StopBodyKeepsSurf ==
    /\ active' = FALSE
    /\ frame_data' = None
    /\ frame_surf' = frame_surf

\* the body of stop(), which close() calls too
StopBody ==
    /\ active' = FALSE
    /\ frame_data' = None
    /\ frame_surf' = None

stop ==
    /\ StopBody
    /\ Call("stop", NoArg, "None")
    /\ stopped' = TRUE
    /\ fresh' = FALSE
    /\ UNCHANGED <<pc, original_size, current_size, aspect_ratio, closed,
                   post_func, interp, fps, _frames, _last_tick, _vid, now,
                   read_at>>

\* mutant of ResizeBody: the surface is not rebuilt
ResizeBodyKeepsSurf(size) ==
    /\ current_size' = size
    /\ IF frame_data # None
       THEN /\ frame_data' = _resize_frame(frame_data, size, interp)
            /\ frame_surf' = frame_surf
       ELSE UNCHANGED <<frame_data, frame_surf>>

\* the body of resize(size), which change_resolution() calls too
ResizeBody(size) ==
    /\ current_size' = size
    /\ IF frame_data # None
       THEN /\ frame_data' = _resize_frame(frame_data, size, interp)
            /\ frame_surf' = _create_frame(frame_data', size)
       ELSE UNCHANGED <<frame_data, frame_surf>>

resize ==
    \E size \in OutputSizes \cup DeviceModes :
        /\ ResizeBody(size)
        /\ Call("resize", size, "None")
        /\ UNCHANGED <<pc, original_size, aspect_ratio, active, closed, post_func,
                       interp, fps, _frames, _last_tick, _vid, now, read_at,
                       stopped, fresh>>

\* mutant of resize_capture: the size is compared before it is read back
resize_capture_stale ==
    \E size \in CaptureRequests :
        \E got \in Negotiate(size) :
            /\ _vid' = [_vid EXCEPT !.size = got]
            /\ original_size' = _vid'.size
            /\ Call("resize_capture", size, BoolStr(original_size = size))
            /\ UNCHANGED <<pc, current_size, aspect_ratio, frame_data, frame_surf,
                           active, closed, post_func, interp, fps, _frames,
                           _last_tick, now, read_at, stopped, fresh>>

resize_capture ==
    \E size \in CaptureRequests :
        \E got \in Negotiate(size) :
            /\ _vid' = [_vid EXCEPT !.size = got]
            /\ original_size' = _vid'.size
            /\ Call("resize_capture", size, BoolStr(original_size' = size))
            /\ UNCHANGED <<pc, current_size, aspect_ratio, frame_data, frame_surf,
                           active, closed, post_func, interp, fps, _frames,
                           _last_tick, now, read_at, stopped, fresh>>

change_resolution ==
    \E height \in Heights :
        /\ ResizeBody(<<ScaledWidth(height, aspect_ratio), height>>)
        /\ Call("change_resolution", height, "None")
        /\ UNCHANGED <<pc, original_size, aspect_ratio, active, closed, post_func,
                       interp, fps, _frames, _last_tick, _vid, now, read_at,
                       stopped, fresh>>

\* mutant of close: stop() is not called
close_no_stop ==
    /\ _vid' = [_vid EXCEPT !.opened = FALSE]
    /\ closed' = TRUE
    /\ Call("close", NoArg, "None")
    /\ stopped' = TRUE
    /\ UNCHANGED <<pc, original_size, current_size, aspect_ratio, frame_data,
                   frame_surf, active, post_func, interp, fps, _frames,
                   _last_tick, now, read_at, fresh>>

\* mutant of close: self.closed is not set
close_no_flag ==
    /\ StopBody
    /\ _vid' = [_vid EXCEPT !.opened = FALSE]
    /\ Call("close", NoArg, "None")
    /\ stopped' = TRUE
    /\ fresh' = FALSE
    /\ UNCHANGED <<pc, original_size, current_size, aspect_ratio, closed,
                   post_func, interp, fps, _frames, _last_tick, now, read_at>>

close ==
    /\ StopBody
    /\ _vid' = [_vid EXCEPT !.opened = FALSE]
    /\ closed' = TRUE
    /\ Call("close", NoArg, "None")
    /\ stopped' = TRUE
    /\ fresh' = FALSE
    /\ UNCHANGED <<pc, original_size, current_size, aspect_ratio, post_func,
                   interp, fps, _frames, _last_tick, now, read_at>>

\* the wall clock advances between two calls
Tick ==
    /\ now < Epoch + MaxTime
    /\ now' = now + 1
    /\ Call("tick", NoArg, "None")
    /\ UNCHANGED <<pc, original_size, current_size, aspect_ratio, frame_data,
                   frame_surf, active, closed, post_func, interp, fps,
                   _frames, _last_tick, _vid, read_at, stopped, fresh>>

Next ==
    \/ update
    \/ draw
    \/ set_post_func
    \/ set_interp
    \/ play
    \/ stop
    \/ resize
    \/ resize_capture
    \/ change_resolution
    \/ close
    \/ Tick

Spec == Init /\ [][Next]_vars

(***************************************************************************)
(* The calls around set_interp, with every token of Tokens                 *)
(***************************************************************************)
set_interp_any == SetInterp(Tokens)

NextInterp ==
    \/ set_interp_any
    \/ update
    \/ draw
    \/ resize
    \/ change_resolution
    \/ stop
    \/ play

SpecInterp == Init /\ [][NextInterp]_vars

(***************************************************************************)
(* preview(): the calls before it, then its loop, one step per position    *)
(***************************************************************************)
\* win = set_mode(self.current_size); self.play(); clock = Clock()
preview_begin ==
    /\ pc = "idle"
    /\ active' = TRUE
    /\ stopped' = FALSE
    /\ Call("preview", NoArg, "None")
    /\ pc' = "loop"
    /\ UNCHANGED <<original_size, current_size, aspect_ratio, frame_data,
                   frame_surf, closed, post_func, interp, fps, _frames,
                   _last_tick, _vid, now, read_at, fresh>>

\* mutant of preview_events: a QUIT event does not stop the webcam
preview_events_ignores_quit ==
    /\ pc = "loop"
    /\ active
    /\ \E quit \in BOOLEAN : \E dt \in {0, 1} :
        /\ now + dt <= Epoch + MaxTime
        /\ now' = now + dt
        /\ UNCHANGED <<active, frame_data, frame_surf, stopped, fresh>>
        /\ Call("preview_events", quit, "None")
    /\ pc' = "draw"
    /\ UNCHANGED <<original_size, current_size, aspect_ratio, closed,
                   post_func, interp, fps, _frames, _last_tick, _vid, read_at>>

\* while self.active: the events are drained, a QUIT among them calls
\* stop(); clock.tick(max_fps) lets dt ticks pass
preview_events ==
    /\ pc = "loop"
    /\ active
    /\ \E quit \in BOOLEAN : \E dt \in {0, 1} :
        /\ now + dt <= Epoch + MaxTime
        /\ now' = now + dt
        /\ IF quit
           THEN StopBody /\ stopped' = TRUE /\ fresh' = FALSE
           ELSE UNCHANGED <<active, frame_data, frame_surf, stopped, fresh>>
        /\ Call("preview_events", quit, "None")
    /\ pc' = "draw"
    /\ UNCHANGED <<original_size, current_size, aspect_ratio, closed,
                   post_func, interp, fps, _frames, _last_tick, _vid, read_at>>

\* self.draw(win, (0, 0), force_draw=False); pygame.display.update()
preview_draw ==
    /\ pc = "draw"
    /\ DrawCall(FALSE)
    /\ pc' = "loop"

\* the loop is left: pygame.display.quit(); self.close()
preview_end ==
    /\ pc = "loop"
    /\ ~active
    /\ StopBody
    /\ _vid' = [_vid EXCEPT !.opened = FALSE]
    /\ closed' = TRUE
    /\ Call("close", NoArg, "None")
    /\ stopped' = TRUE
    /\ fresh' = FALSE
    /\ pc' = "done"
    /\ UNCHANGED <<original_size, current_size, aspect_ratio, post_func,
                   interp, fps, _frames, _last_tick, now, read_at>>

\* the calls made before preview()
BeforePreview ==
    /\ pc = "idle"
    /\ \/ update
       \/ stop
       \/ resize
       \/ Tick

PreviewStep ==
    \/ preview_events
    \/ preview_draw
    \/ preview_end

NextPreview ==
    \/ BeforePreview
    \/ preview_begin
    \/ PreviewStep

\* preview() runs on the caller's thread and nothing suspends it
SpecPreview == Init /\ [][NextPreview]_vars /\ WF_vars(PreviewStep)

(***************************************************************************)
(* Construction as a call: the state before it, __init__, a few calls      *)
(***************************************************************************)
\* no Webcam object yet; the device is in one of its modes and not opened
InitNew ==
    /\ pc = "new"
    /\ _vid \in {[opened |-> FALSE, size |-> m] : m \in DeviceModes}
    /\ original_size = <<0, 0>>
    /\ current_size = <<0, 0>>
    /\ aspect_ratio = <<0, 1>>
    /\ frame_data = None
    /\ frame_surf = None
    /\ active = FALSE
    /\ closed = FALSE
    /\ post_func = "none"
    /\ interp = NoInterp
    /\ fps = 1
    /\ _frames = 0
    /\ _last_tick = 0
    /\ now = Epoch
    /\ op = "new"
    /\ arg = NoArg
    /\ ret = "None"
    /\ poll = "none"
    /\ blit = FALSE
    /\ read_at = NoRead
    /\ stopped = FALSE
    /\ fresh = FALSE

\* Webcam(post_process, interp, fps, cam_id, capture_size); opens is whether
\* cv2.VideoCapture(cam_id) opens the device
__init__ ==
    /\ pc = "new"
    /\ \E opens \in BOOLEAN, tok \in Tokens, func \in PostFuncs,
          f \in FpsValues, capture_size \in {<<0, 0>>} \cup CaptureRequests :
        /\ op' = "__init__"
        /\ arg' = tok
        /\ poll' = "none"
        /\ blit' = FALSE
        /\ IF ~opens
           THEN \* raise WebcamNotFoundError
                /\ ret' = "WebcamNotFoundError"
                /\ pc' = "failed"
                /\ UNCHANGED <<_vid, original_size, current_size, aspect_ratio,
                               post_func, interp, fps, active>>
           ELSE /\ \E got \in (IF capture_size = <<0, 0>> THEN {_vid.size}
                                ELSE Negotiate(capture_size)) :
                    _vid' = [opened |-> TRUE, size |-> got]
                /\ original_size' = _vid'.size
                /\ current_size' = original_size'
                /\ aspect_ratio' = original_size'
                /\ post_func' = func
                /\ fps' = f
                /\ IF SetInterpChoice(tok) # NoInterp
                   THEN \* self.set_interp(self.interp); self.play()
                        /\ interp' = SetInterpChoice(tok)
                        /\ active' = TRUE
                        /\ ret' = "None"
                        /\ pc' = "idle"
                   ELSE \* set_interp raises ValueError; nothing releases
                        \* self._vid
                        /\ interp' = NoInterp
                        /\ active' = FALSE
                        /\ ret' = "ValueError"
                        /\ pc' = "failed"
    /\ UNCHANGED <<frame_data, frame_surf, closed, _frames, _last_tick, now,
                   read_at, stopped, fresh>>

\* the calls made on the constructed object
AfterInit ==
    /\ pc = "idle"
    /\ \/ update
       \/ stop
       \/ play
       \/ close

NextInit ==
    \/ __init__
    \/ AfterInit

SpecInit == InitNew /\ [][NextInit]_vars

(***************************************************************************)
(* Properties                                                              *)
(***************************************************************************)

\* C1: after stop() (or close(), which calls it) and until the next play(),
\* every draw(), forced or not, returns False and composites nothing.
C1_StoppedDrawsNothing ==
    (op = "draw" /\ stopped) => (ret = "False" /\ ~blit)

\* a forced draw on a stopped webcam that had captured frames
C1_Witness ==
    op = "draw" /\ stopped /\ arg = TRUE /\ _frames > 0 /\ ret = "False"

\* C2: frame_surf is None exactly when frame_data is None.
C2_FramesInSync == (frame_surf = None) <=> (frame_data = None)

\* a frame resized by resize() while both fields are present
C2_Witness ==
    op = "resize" /\ _frames > 0 /\ frame_data # None /\ frame_surf # None

\* C3: a stored frame and its surface have the size current_size.
C3_FrameSizeIsCurrent ==
    frame_data # None =>
        /\ frame_data.size = current_size
        /\ frame_surf # None
        /\ frame_surf.size = current_size

\* a capture after resize_capture() renegotiated the mode and the output size
\* differs from it
C3_Witness ==
    /\ poll = "captured"
    /\ original_size # current_size
    /\ original_size # aspect_ratio
    /\ frame_data.size = current_size

\* C4: a device read is at least 1/fps after the device read before it.
C4_ReadsPaced ==
    [][(poll' \in {"failed", "captured"} /\ read_at # NoRead)
        => (now' - read_at[1]) * fps >= TicksPerSecond]_vars

\* a poll less than 1/fps after a device read, which reads nothing
C4_Witness ==
    /\ poll = "throttled"
    /\ read_at # NoRead
    /\ now > read_at[1]
    /\ (now - read_at[1]) * fps < TicksPerSecond

\* C5 as stated: once a frame was captured, every draw(force_draw=True)
\* composites and returns True.
C5_ForcedDrawAfterAnyCapture ==
    (op = "draw" /\ arg = TRUE /\ _frames > 0) => (ret = "True" /\ blit)

\* C5 amended: once a frame was captured and stop()/close() was not called
\* since, every draw(force_draw=True) composites and returns True, also when
\* its poll returns False.
C5_ForcedDrawWhileFresh ==
    (op = "draw" /\ arg = TRUE /\ fresh) => (ret = "True" /\ blit)

\* a forced draw of a stale frame: its poll was throttled or its read failed
C5_Witness ==
    /\ op = "draw"
    /\ arg = TRUE
    /\ fresh
    /\ poll \in {"throttled", "failed"}
    /\ blit

\* C6: draw() polls, composites exactly when (its poll captured a frame or
\* force_draw) and frame_surf is present, and returns whether it composited;
\* without force_draw it composites only on a poll that captured a frame.
C6_DrawRule ==
    op = "draw" =>
        /\ poll # "none"
        /\ blit <=> ((poll = "captured" \/ arg) /\ frame_surf # None)
        /\ ret = (IF blit THEN "True" ELSE "False")
        /\ (~arg /\ blit) => poll = "captured"

\* an unforced draw that composites the frame its poll captured
C6_Witness == op = "draw" /\ arg = FALSE /\ poll = "captured" /\ blit

\* C7 as stated: a due poll whose read fails returns False and changes
\* nothing, the pacing clock included.
C7_FailedReadChangesNothing ==
    [][poll' = "failed" =>
        /\ op' = "update" => ret' = "False"
        /\ UNCHANGED <<frame_data, frame_surf, _frames, original_size,
                       current_size, active, closed, _last_tick>>]_vars

\* C7 amended: a due poll whose read fails returns False and changes nothing
\* but the pacing clock, which is set to the time of the poll.
C7_FailedReadMovesClockOnly ==
    [][poll' = "failed" =>
        /\ op' = "update" => ret' = "False"
        /\ _last_tick' = now'
        /\ UNCHANGED <<frame_data, frame_surf, _frames, original_size,
                       current_size, aspect_ratio, active, closed, post_func,
                       interp, fps, _vid>>]_vars

\* a failed read while a frame is stored
C7_Witness ==
    poll = "failed" /\ frame_data # None /\ _frames > 0 /\ _last_tick = now

\* C8: _frames starts at 0, a capture adds one to it and nothing else changes
\* it; so get_pos() is frames/fps, never decreases and stands still while
\* the webcam is stopped.
C8_FrameCounter ==
    /\ _frames = 0
    /\ [][/\ poll' = "captured" => _frames' = _frames + 1
          /\ poll' # "captured" => _frames' = _frames
          /\ ~active => _frames' = _frames
          /\ fps' = fps
          /\ get_pos' = <<_frames', fps>>
          /\ get_pos'[1] * get_pos[2] >= get_pos[1] * get_pos'[2]]_vars

\* play() on a webcam that captured two frames and was stopped
C8_Witness == op = "play" /\ _frames = 2 /\ ~fresh

\* the entries of the interpolation table: name, numeric alias, algorithm
InterpEntries ==
    {<<"nearest", 0, INTER_NEAREST>>, <<"linear", 1, INTER_LINEAR>>,
     <<"cubic", 2, INTER_CUBIC>>, <<"area", 3, INTER_AREA>>,
     <<"lanczos4", 4, INTER_LANCZOS4>>}

\* the entries a token names, by name or by alias
EntriesOf(tok) ==
    {e \in InterpEntries : tok = StrTok(e[1]) \/ tok = IntTok(e[2])}

\* C9: set_interp with the name or the alias of an entry selects the entry's
\* algorithm and the next resize uses it; with any other token it raises
\* ValueError and the algorithm stays.
C9_SetInterp ==
    [][/\ op' = "set_interp" =>
            IF EntriesOf(arg') # {}
            THEN /\ ret' = "None"
                 /\ \A e \in EntriesOf(arg') : interp' = e[3]
            ELSE /\ ret' = "ValueError"
                 /\ interp' = interp
       /\ (op' \in {"resize", "change_resolution"} /\ frame_data # None) =>
            frame_data'.interp = interp
       /\ (poll' = "captured" /\ original_size # current_size) =>
            frame_data'.interp = interp]_vars

\* a resize() that used the algorithm selected by set_interp("area" or 3)
C9_Witness ==
    op = "resize" /\ frame_data # None /\ frame_data.interp = INTER_AREA

\* C10: resize_capture(size) sets original_size to the size the device
\* reports, returns True exactly when that is size, and changes neither
\* current_size nor the stored frame.
C10_ResizeCapture ==
    [][op' = "resize_capture" =>
        /\ original_size' = _vid'.size
        /\ ret' = (IF original_size' = arg' THEN "True" ELSE "False")
        /\ UNCHANGED <<current_size, frame_data, frame_surf>>]_vars

\* a request the device clamped, with a frame stored
C10_Witness ==
    /\ op = "resize_capture"
    /\ ret = "False"
    /\ arg \notin DeviceModes
    /\ frame_data # None

\* C11: change_resolution(h) leaves current_size = (w, h) with w even; the
\* width computed is even for every height from 0 and every device mode.
C11_EvenWidth ==
    /\ \A h \in 0..MaxHeight : \A m \in DeviceModes :
            ScaledWidth(h, m) % 2 = 0
    /\ op = "change_resolution" =>
            /\ current_size[2] = arg
            /\ current_size[1] % 2 = 0

\* a height whose scaled width, 3, is odd and was raised to 4
C11_Witness ==
    /\ op = "change_resolution"
    /\ arg = 2
    /\ aspect_ratio = <<3, 2>>
    /\ current_size = <<4, 2>>

\* C12 as stated: once closed, the webcam is never active again.
C12_ClosedNeverActive == closed => ~active

\* C12 amended: active is set by play() alone and cleared by stop() and
\* close() alone; closed is set by close() alone and never cleared; play()
\* is not guarded by closed and sets active on a closed webcam too.
C12_Transitions ==
    [][/\ closed => closed'
       /\ closed' # closed => op' = "close"
       /\ op' = "close" => closed' /\ ~active'
       /\ op' = "stop" => ~active'
       /\ op' = "play" => active'
       /\ active' # active =>
            \/ active' /\ op' = "play"
            \/ ~active' /\ op' \in {"stop", "close"}]_vars

\* play() on a closed webcam
C12_Witness == op = "play" /\ closed /\ active

\* C13: aspect_ratio is original_size's width / height.
C13_AspectTracksCapture ==
    aspect_ratio[1] * original_size[2] = original_size[1] * aspect_ratio[2]

\* C14 as stated: a poll on an active webcam that reads nothing came less
\* than 1/fps after the pacing clock's last tick.
C14_ThrottledBelowInterval ==
    (op \in {"update", "draw"} /\ poll = "throttled") =>
        (now - _last_tick) * fps < TicksPerSecond

\* C14 amended: a poll on an active webcam reads nothing exactly when it
\* comes at most 1/fps after the pacing clock's last tick; one that comes
\* more than 1/fps after it sets the clock and reads the device.
C14_ThrottleRule ==
    [][(op' \in {"update", "draw"} /\ active) =>
        /\ poll' = "throttled" <=> (now' - _last_tick) * fps <= TicksPerSecond
        /\ poll' \in {"failed", "captured"} <=>
                (now' - _last_tick) * fps > TicksPerSecond
        /\ poll' \in {"failed", "captured"} => _last_tick' = now']_vars

\* a poll exactly 1/fps after the last tick, which reads nothing
C14_Witness ==
    /\ op \in {"update", "draw"}
    /\ poll = "throttled"
    /\ (now - _last_tick) * fps = TicksPerSecond

\* round(n / d), halves to the even neighbour
RoundDiv(n, d) ==
    LET q == n \div d
        r == n % d
    IN  IF 2 * r > d \/ (2 * r = d /\ q % 2 = 1) THEN q + 1 ELSE q

\* w, raised by one when odd
EvenUp(w) == w + (w % 2)

\* C15 as stated: change_resolution(height) sets the width to
\* round(height * aspect_ratio), raised by one when odd.
C15_RoundedWidth ==
    op = "change_resolution" =>
        current_size =
            <<EvenUp(RoundDiv(arg * aspect_ratio[1], aspect_ratio[2])), arg>>

\* C15 amended: change_resolution(height) sets the width to
\* height * aspect_ratio truncated to an integer, raised by one when odd,
\* and the height to height.
C15_TruncatedWidth ==
    op = "change_resolution" =>
        \E t \in 0..(arg * aspect_ratio[1]) :
            /\ t * aspect_ratio[2] <= arg * aspect_ratio[1]
            /\ arg * aspect_ratio[1] < (t + 1) * aspect_ratio[2]
            /\ current_size = <<EvenUp(t), arg>>

\* height 2 at 4/3: 2.67 is truncated to 2, not rounded to 3 and raised to 4
C15_Witness ==
    /\ op = "change_resolution"
    /\ arg = 2
    /\ aspect_ratio = <<4, 3>>
    /\ current_size = <<2, 2>>

\* C16 as stated: in every stored frame post_func was applied once and is
\* the last transform.
C16_PostIsLast ==
    frame_data # None => (frame_data.posts = 1 /\ frame_data.last = "post")

\* C16 amended: in every stored frame post_func was applied exactly once; it
\* is the last transform, after the resize if any, of a frame stored by a
\* capture; resize() and change_resolution() resize the stored frame after
\* it and do not apply it again.
C16_PostOnceThenResizes ==
    /\ frame_data # None =>
            (frame_data.posts = 1 /\ frame_data.post \in PostFuncs)
    /\ poll = "captured" => frame_data.last = "post"
    /\ (op \in {"resize", "change_resolution"} /\ frame_data # None) =>
            frame_data.last = "resize"

\* a frame captured through a resize, then post-processed
C16_Witness ==
    /\ poll = "captured"
    /\ frame_data.interp # NoInterp
    /\ frame_data.last = "post"

\* C17: resize(size) sets current_size; a stored frame is resized to it and
\* its surface rebuilt from it in the call; no frame is created; active,
\* closed, _frames, _last_tick and original_size stay.
C17_Resize ==
    [][op' = "resize" =>
        /\ current_size' = arg'
        /\ frame_data # None =>
                /\ frame_data' # None
                /\ frame_data'.size = arg'
                /\ frame_surf' = [size |-> arg', data |-> frame_data']
        /\ frame_data = None => (frame_data' = None /\ frame_surf' = None)
        /\ UNCHANGED <<active, closed, _frames, _last_tick, original_size>>
      ]_vars

\* a stored frame resized to a size that is not the capture size
C17_Witness ==
    /\ op = "resize"
    /\ frame_data # None
    /\ arg # original_size
    /\ frame_surf.size = arg

\* C19: close() leaves the webcam inactive, without frame and released; from
\* then on and until a play(), no poll reads the device and no frame is
\* stored.
C19_ClosedReadsNothing ==
    /\ op = "close" =>
            /\ closed
            /\ ~_vid.opened
            /\ ~active
            /\ frame_data = None
            /\ frame_surf = None
    /\ (closed /\ stopped) =>
            /\ ~active
            /\ frame_data = None
            /\ frame_surf = None
            /\ poll \notin {"failed", "captured"}

\* a forced draw on a closed webcam that had captured frames
C19_Witness ==
    /\ op = "draw"
    /\ arg = TRUE
    /\ closed
    /\ stopped
    /\ _frames > 0
    /\ poll = "inactive"

\* C18: preview() loops while the webcam is active; a QUIT event stops it,
\* nothing is composited after that, the loop is left at its next test and
\* close() is called, once; preview() returns with the webcam closed and
\* released, and only after a QUIT event.
C18_Preview ==
    /\ [][/\ (pc = "loop" /\ active) => pc' \in {"loop", "draw"}
          /\ (pc = "draw") => pc' \in {"draw", "loop"}
          /\ (op' = "preview_events" /\ arg') => (~active' /\ stopped')
          /\ (pc \in {"loop", "draw"} /\ stopped) => ~blit'
          /\ (pc \in {"loop", "draw"} /\ pc' = "done") =>
                (pc = "loop" /\ stopped /\ ~active /\ ~closed
                    /\ op' = "close" /\ closed' /\ ~_vid'.opened)
          /\ pc = "done" => pc' = "done"]_vars
    /\ [](pc = "done" =>
            closed /\ ~_vid.opened /\ ~active /\ frame_surf = None)
    /\ [](pc = "loop" /\ stopped => ~active)
    /\ ((pc = "draw" /\ stopped) ~> (pc = "done"))

\* preview() returned after showing frames
C18_Witness == pc = "done" /\ closed /\ _frames > 0 /\ op = "close"

\* C20: the device handle is open only while a constructed Webcam that was
\* not closed owns it; a construction that fails leaves no open handle.
C20_NoHandleWithoutOwner ==
    _vid.opened => (pc \notin {"new", "failed"} /\ ~closed)

====
